---- MODULE Spec2Model ----
(***************************************************************************)
(* Model of scripts/import_structure_csv.py: the flat rows of              *)
(* csv/structure.csv are grouped by work_id (main) and every group is      *)
(* turned into one structure document (build_work_structure).              *)
(*                                                                         *)
(* Strings are sequences of code points, so that str.strip(), int() and    *)
(* the lexicographic comparison used by sorted() are computed, not assumed.*)
(* Python dicts keep insertion order: a dict is a sequence of entries      *)
(* [k |-> key, v |-> value] with pairwise distinct keys.  A node is a      *)
(* record whose optional keys "parent" and "links" are in its DOMAIN only  *)
(* once the code has set them.                                             *)
(***************************************************************************)
EXTENDS Integers, Sequences, FiniteSets, TLC

VARIABLES rows, pc, works, idx, files, err

vars == <<rows, pc, works, idx, files, err>>

----------------------------------------------------------------------------
(* Bounds and input alphabets *)

MaxRows == 3

\* code points: 32 space, 49 "1", 50 "2", 65.. "A".., 120 "x"
Empty == <<>>
Blank == <<32>>
sA == <<65>>
sB == <<66>>
sC == <<67>>
sX == <<88>>
sApad == <<32, 65, 32>>
sBpad == <<32, 66>>
W1 == <<87, 49>>
W2 == <<87, 50>>
L1 == <<76, 49>>
L2 == <<76, 50>>
L1pad == <<76, 49, 32>>
o1 == <<49>>
o2 == <<50>>
o2pad == <<32, 50>>
o10 == <<49, 48>>
oNeg == <<45, 49>>
oBad == <<120>>
en == <<101, 110>>
fr == <<102, 114>>
enpad == <<101, 110, 32>>
tT == <<84>>
tU == <<85>>
wiki == <<119>>
wikipad == <<32, 119>>
urlx == <<120>>
urly == <<121>>

----------------------------------------------------------------------------
(* Python built-ins used by the script *)

\* the characters str.strip() removes, among the code points below 256
Whitespace == {9, 10, 11, 12, 13, 28, 29, 30, 31, 32, 133, 160}

RECURSIVE lstrip(_)
lstrip(s) ==
    IF s = <<>> THEN s
    ELSE IF Head(s) \in Whitespace THEN lstrip(Tail(s)) ELSE s

RECURSIVE rstrip(_)
rstrip(s) ==
    IF s = <<>> THEN s
    ELSE IF s[Len(s)] \in Whitespace THEN rstrip(SubSeq(s, 1, Len(s) - 1)) ELSE s

strip(s) == rstrip(lstrip(s))

IsDigit(c) == c \in 48..57

\* the literal after the surrounding whitespace and the optional sign
IntBody(s) ==
    LET t == strip(s)
    IN  IF t # <<>> /\ Head(t) \in {43, 45} THEN Tail(t) ELSE t

\* int(s) does not raise ValueError: optional sign, ASCII digits, single
\* underscores between digits
IsInt(s) ==
    LET b == IntBody(s)
    IN  /\ b # <<>>
        /\ IsDigit(b[1])
        /\ IsDigit(b[Len(b)])
        /\ \A i \in 1..Len(b) : IsDigit(b[i]) \/ b[i] = 95
        /\ \A i \in 1..(Len(b) - 1) : ~(b[i] = 95 /\ b[i + 1] = 95)

RECURSIVE DigitsVal(_)
DigitsVal(b) ==
    IF b = <<>> THEN 0
    ELSE LET front == SubSeq(b, 1, Len(b) - 1)
             c == b[Len(b)]
         IN  IF c = 95 THEN DigitsVal(front) ELSE DigitsVal(front) * 10 + (c - 48)

\* int(s) for a string accepted by IsInt
IntVal(s) ==
    LET t == strip(s)
        v == DigitsVal(IntBody(s))
    IN  IF t # <<>> /\ Head(t) = 45 THEN 0 - v ELSE v

\* str < str
RECURSIVE StrLess(_, _)
StrLess(a, b) ==
    IF b = <<>> THEN FALSE
    ELSE IF a = <<>> THEN TRUE
    ELSE IF Head(a) # Head(b) THEN Head(a) < Head(b)
    ELSE StrLess(Tail(a), Tail(b))

max(a, b) == IF a > b THEN a ELSE b

min(a, b) == IF b < a THEN b ELSE a

\* dict
DictHas(d, k) == \E i \in 1..Len(d) : d[i].k = k

DictGet(d, k) == d[CHOOSE i \in 1..Len(d) : d[i].k = k].v

DictGetDefault(d, k, dflt) == IF DictHas(d, k) THEN DictGet(d, k) ELSE dflt

\* d[k] = v
DictSet(d, k, v) ==
    IF DictHas(d, k)
    THEN [i \in 1..Len(d) |-> IF d[i].k = k THEN [k |-> k, v |-> v] ELSE d[i]]
    ELSE Append(d, [k |-> k, v |-> v])

\* d.setdefault(k, v)
setdefault(d, k, v) == IF DictHas(d, k) THEN d ELSE Append(d, [k |-> k, v |-> v])

DictKeys(d) == {d[i].k : i \in 1..Len(d)}

DictValues(d) == [i \in 1..Len(d) |-> d[i].v]

\* node[key] = v on a node record
SetKey(node, key, v) ==
    [x \in (DOMAIN node) \cup {key} |-> IF x = key THEN v ELSE node[x]]

----------------------------------------------------------------------------
(* main: grouping *)

\* works[row["work_id"]] = [row]: the group is replaced, not extended
GroupStepOverwrite(acc, row) == DictSet(acc, row.work_id, <<row>>)

\* works[row["work_id"]].append(row) on a defaultdict(list)
GroupStep(acc, row) ==
    DictSet(acc, row.work_id, Append(DictGetDefault(acc, row.work_id, <<>>), row))

RECURSIVE GroupFrom(_, _)
GroupFrom(rs, acc) ==
    IF rs = <<>> THEN acc ELSE GroupFrom(Tail(rs), GroupStep(acc, Head(rs)))

GroupRows(rs) == GroupFrom(rs, <<>>)

----------------------------------------------------------------------------
(* build_work_structure: node accumulation *)

\* the default handed to nodes.setdefault; its ordinal is read only when
\* OrdinalError has let the row through
NewNode(node_id, row) ==
    [id |-> node_id,
     level |-> strip(row.level_id),
     ordinal |-> IntVal(row.ordinal),
     title |-> <<>>]

\* int() evaluated only when the node is new
OrdinalErrorFirstRowOnly(nodes, node_id, row) ==
    ~DictHas(nodes, node_id) /\ ~IsInt(row.ordinal)

\* the argument of setdefault is evaluated on every row, so int() raises
\* ValueError on every row whose ordinal is not an integer literal
OrdinalError(nodes, node_id, row) == ~IsInt(row.ordinal)

\* nodes[node_id] = {...} in place of setdefault
EnsureNodeOverwrite(nodes, node_id, row) ==
    DictSet(nodes, node_id, NewNode(node_id, row))

EnsureNode(nodes, node_id, row) ==
    setdefault(nodes, node_id, NewNode(node_id, row))

\* the parent of the first row that names one is kept
UpdateParentFirstWins(node, parent_id) ==
    IF parent_id # <<>> /\ "parent" \notin DOMAIN node
    THEN SetKey(node, "parent", parent_id)
    ELSE node

UpdateParent(node, parent_id) ==
    IF parent_id # <<>> THEN SetKey(node, "parent", parent_id) ELSE node

\* title recorded as soon as a language is given
UpdateTitleLangOnly(node, lang, title) ==
    IF lang # <<>> THEN [node EXCEPT !.title = DictSet(@, lang, title)] ELSE node

UpdateTitle(node, lang, title) ==
    IF lang # <<>> /\ title # <<>>
    THEN [node EXCEPT !.title = DictSet(@, lang, title)]
    ELSE node

UpdateLinks(node, site, url) ==
    IF site # <<>> /\ url # <<>>
    THEN LET n1 == IF "links" \in DOMAIN node THEN node ELSE SetKey(node, "links", <<>>)
         IN  [n1 EXCEPT !.links = DictSet(@, site, url)]
    ELSE node

\* one iteration of "for row in rows"; acc.err # "none" once the process
\* has exited
AccumulateRow(acc, row) ==
    LET node_id == strip(row.node_id)
    IN  IF acc.err # "none" THEN acc
        ELSE IF node_id = <<>> THEN [acc EXCEPT !.err = "empty_node_id"]
        ELSE IF OrdinalError(acc.nodes, node_id, row) THEN [acc EXCEPT !.err = "ordinal"]
        ELSE LET nodes1 == EnsureNode(acc.nodes, node_id, row)
                 parent_id == strip(row.parent_id)
                 n1 == UpdateParent(DictGet(nodes1, node_id), parent_id)
                 n2 == UpdateTitle(n1, strip(row.lang), strip(row.title))
                 n3 == UpdateLinks(n2, strip(row.site), strip(row.url))
             IN  [nodes |-> DictSet(nodes1, node_id, n3),
                  seen_parents |-> IF parent_id # <<>>
                                   THEN acc.seen_parents \cup {parent_id}
                                   ELSE acc.seen_parents,
                  err |-> "none"]

RECURSIVE Accumulate(_, _)
Accumulate(rs, acc) ==
    IF rs = <<>> THEN acc ELSE Accumulate(Tail(rs), AccumulateRow(acc, Head(rs)))

----------------------------------------------------------------------------
(* build_work_structure: validation, levels, order *)

\* a check that rejects a node naming itself as parent
ParentResolvesNoSelf(node, nodes) ==
    "parent" \in DOMAIN node => (DictHas(nodes, node.parent) /\ node.parent # node.id)

\* a check of the node's own id in place of its parent
ParentResolvesOwnId(node, nodes) ==
    "parent" \in DOMAIN node => DictHas(nodes, node.id)

\* not ("parent" in node and node["parent"] not in nodes)
ParentResolves(node, nodes) ==
    "parent" \in DOMAIN node => DictHas(nodes, node.parent)

Validate(nodes) == \A i \in 1..Len(nodes) : ParentResolves(nodes[i].v, nodes)

\* level_ordinals[lvl] = max(...)
LevelStepMax(level_ordinals, node) ==
    DictSet(level_ordinals, node.level,
            max(DictGetDefault(level_ordinals, node.level, node.ordinal), node.ordinal))

LevelStep(level_ordinals, node) ==
    DictSet(level_ordinals, node.level,
            min(DictGetDefault(level_ordinals, node.level, node.ordinal), node.ordinal))

RECURSIVE LevelOrdinals(_, _)
LevelOrdinals(ns, level_ordinals) ==
    IF ns = <<>> THEN level_ordinals
    ELSE LevelOrdinals(Tail(ns), LevelStep(level_ordinals, Head(ns)))

\* key=lambda x: x[1] on level_ordinals.items()
LevelLess(a, b) == a.v < b.v

\* sorted() is stable: an entry goes before the first one it is less than
RECURSIVE InsertLevel(_, _)
InsertLevel(x, s) ==
    IF s = <<>> THEN <<x>>
    ELSE IF LevelLess(x, Head(s)) THEN <<x>> \o s
    ELSE <<Head(s)>> \o InsertLevel(x, Tail(s))

RECURSIVE SortLevels(_, _)
SortLevels(s, acc) ==
    IF s = <<>> THEN acc ELSE SortLevels(Tail(s), InsertLevel(Head(s), acc))

Levels(level_ordinals) ==
    LET s == SortLevels(level_ordinals, <<>>)
    IN  [i \in 1..Len(s) |-> [id |-> s[i].k, ordinal |-> s[i].v]]

\* a key that looks the parent up under a name no node has
sort_key_no_parent(n) == <<<<>>, n.ordinal, n.id>>

sort_key(n) ==
    <<IF "parent" \in DOMAIN n THEN n.parent ELSE <<>>, n.ordinal, n.id>>

\* tuple < tuple for (str, int, str)
TupleLess(a, b) ==
    \/ StrLess(a[1], b[1])
    \/ a[1] = b[1] /\ a[2] < b[2]
    \/ a[1] = b[1] /\ a[2] = b[2] /\ StrLess(a[3], b[3])

NodeLess(a, b) == TupleLess(sort_key(a), sort_key(b))

RECURSIVE InsertNode(_, _)
InsertNode(x, s) ==
    IF s = <<>> THEN <<x>>
    ELSE IF NodeLess(x, Head(s)) THEN <<x>> \o s
    ELSE <<Head(s)>> \o InsertNode(x, Tail(s))

RECURSIVE SortNodes(_, _)
SortNodes(s, acc) ==
    IF s = <<>> THEN acc ELSE SortNodes(Tail(s), InsertNode(Head(s), acc))

\* OUT_DIR / f"{work_id}.structure.yaml" (".structure.yaml" appended)
out_path(work_id) ==
    work_id \o <<46, 115, 116, 114, 117, 99, 116, 117, 114, 101, 46, 121, 97, 109, 108>>

\* the call as a whole: err = "none" and the document written, or the kind
\* of failure that ended the process
build_work_structure(work_id, rs) ==
    LET acc == Accumulate(rs, [nodes |-> <<>>, seen_parents |-> {}, err |-> "none"])
        nodeList == DictValues(acc.nodes)
    IN  IF acc.err # "none" THEN [err |-> acc.err, out |-> <<>>]
        ELSE IF ~Validate(acc.nodes) THEN [err |-> "parent", out |-> <<>>]
        ELSE [err |-> "none",
              out |-> [levels |-> Levels(LevelOrdinals(nodeList, <<>>)),
                       nodes |-> SortNodes(nodeList, <<>>)]]

----------------------------------------------------------------------------
(* The run *)

RowsOver(U) == UNION {[1..n -> U] : n \in 0..MaxRows}

InitWith(U) ==
    /\ rows \in RowsOver(U)
    /\ pc = "start"
    /\ works = <<>>
    /\ idx = 1
    /\ files = <<>>
    /\ err = "none"

\* main, lines 49-51
Group ==
    /\ pc = "start"
    /\ works' = GroupRows(rows)
    /\ pc' = "loop"
    /\ UNCHANGED <<rows, idx, files, err>>

\* main, lines 53-54: one iteration, build_work_structure included
BuildWork ==
    /\ pc = "loop"
    /\ idx <= Len(works)
    /\ LET r == build_work_structure(works[idx].k, works[idx].v)
       IN  IF r.err # "none"
           THEN /\ pc' = "failed"
                /\ err' = r.err
                /\ UNCHANGED <<files, idx>>
           ELSE /\ files' = DictSet(files, out_path(works[idx].k), r.out)
                /\ idx' = idx + 1
                /\ UNCHANGED <<pc, err>>
    /\ UNCHANGED <<rows, works>>

\* main returns: exit status 0
Exit ==
    /\ pc = "loop"
    /\ idx > Len(works)
    /\ pc' = "done"
    /\ UNCHANGED <<rows, works, idx, files, err>>

Next == Group \/ BuildWork \/ Exit

----------------------------------------------------------------------------
(* Inputs: the csv rows, every required column present *)

Row(w, n, p, l, o, lang, title, site, url) ==
    [work_id |-> w, node_id |-> n, parent_id |-> p, level_id |-> l, ordinal |-> o,
     lang |-> lang, title |-> title, site |-> site, url |-> url]

\* parents and works vary
RefRows ==
    {Row(w, n, p, L1, o1, Empty, Empty, Empty, Empty) :
        w \in {W1, W2}, n \in {sA, sBpad}, p \in {Empty, Blank, sA, sBpad, sX}}

\* works, node ids and the text of the ordinal vary
IdRows ==
    {Row(w, n, Empty, L1, o, Empty, Empty, Empty, Empty) :
        w \in {W1, W2}, n \in {Blank, sA, sApad, sB}, o \in {o1, o2pad, oBad}}

\* levels and ordinals vary
LevelRows ==
    {Row(W1, n, Empty, l, o, Empty, Empty, Empty, Empty) :
        n \in {sA, sB, sC}, l \in {L1pad, L2}, o \in {o2, o10, oNeg}}

\* parents and ordinals vary
SortRows ==
    {Row(W1, n, p, L1, o, Empty, Empty, Empty, Empty) :
        n \in {sA, sB, sC}, p \in {Empty, sA, sB}, o \in {o2, o10}}

\* titles and links vary
TextRows ==
    {Row(W1, sA, Empty, L1, o1, lang, title, Empty, Empty) :
        lang \in {Empty, en, fr}, title \in {Empty, tT, tU}}
    \cup
    {Row(W1, sA, Empty, L1, o1, Empty, Empty, site, url) :
        site \in {Empty, wiki, sX}, url \in {Empty, urlx, urly}}
    \cup
    {Row(W1, sA, Empty, L1, o1, enpad, tT, wikipad, urlx),
     Row(W1, sB, Empty, L1, o1, en, tU, Empty, Empty),
     Row(W1, sB, Empty, L1, o1, Empty, Empty, wiki, urly)}

Init == InitWith(RefRows)
InitIds == InitWith(IdRows)
InitLevels == InitWith(LevelRows)
InitSort == InitWith(SortRows)
InitText == InitWith(TextRows)

Spec == Init /\ [][Next]_vars
SpecIds == InitIds /\ [][Next]_vars
SpecLevels == InitLevels /\ [][Next]_vars
SpecSort == InitSort /\ [][Next]_vars
SpecText == InitText /\ [][Next]_vars

----------------------------------------------------------------------------
(* What the input rows say, read off the rows themselves *)

SetMax(S) == CHOOSE x \in S : \A y \in S : y <= x
SetMin(S) == CHOOSE x \in S : \A y \in S : x <= y

WorkIds == {rows[i].work_id : i \in DOMAIN rows}
RowIdx(w) == {i \in DOMAIN rows : rows[i].work_id = w}
NodeIds(w) == {strip(rows[i].node_id) : i \in RowIdx(w)}
NodeIdx(w, n) == {i \in RowIdx(w) : strip(rows[i].node_id) = n}
WellFormed(w) ==
    \A i \in RowIdx(w) : strip(rows[i].node_id) # <<>> /\ IsInt(rows[i].ordinal)

ParentIdx(w, n) == {i \in NodeIdx(w, n) : strip(rows[i].parent_id) # <<>>}
HasFinalParent(w, n) == ParentIdx(w, n) # {}
FinalParent(w, n) == strip(rows[SetMax(ParentIdx(w, n))].parent_id)
Dangling(w) ==
    \E n \in NodeIds(w) : HasFinalParent(w, n) /\ FinalParent(w, n) \notin NodeIds(w)

RECURSIVE OnParentChain(_, _, _, _)
\* target is reached from n in 1..k steps along final parents
OnParentChain(w, n, target, k) ==
    /\ k > 0
    /\ HasFinalParent(w, n)
    /\ \/ FinalParent(w, n) = target
       \/ OnParentChain(w, FinalParent(w, n), target, k - 1)
HasCycle(w) ==
    \E n \in NodeIds(w) : OnParentChain(w, n, n, Cardinality(NodeIds(w)))

Emitted(w) == DictHas(files, out_path(w))
Doc(w) == DictGet(files, out_path(w))
DocNodes(w) == {Doc(w).nodes[i] : i \in 1..Len(Doc(w).nodes)}
FailedWork == works[idx].k

----------------------------------------------------------------------------
(* C1: parent resolution.  In every document written, every node that      *)
(* carries a parent names the id of a node of that same document; a work   *)
(* whose rows leave some node with a parent that is no node of that work   *)
(* (a node of another work does not count) never gets a document, and the  *)
(* run never ends successfully.                                            *)
C1_ParentResolution ==
    /\ \A f \in 1..Len(files) :
         LET ns == files[f].v.nodes
         IN  \A i \in 1..Len(ns) :
               "parent" \in DOMAIN ns[i] => \E j \in 1..Len(ns) : ns[j].id = ns[i].parent
    /\ \A w \in WorkIds : Dangling(w) => (~Emitted(w) /\ pc # "done")

\* the run failed on a work whose dangling parent is a node of another work,
\* one whose document is already written
C1_Witness ==
    /\ pc = "failed"
    /\ err = "parent"
    /\ \E w \in WorkIds \ {FailedWork} :
         /\ Emitted(w)
         /\ \E n \in NodeIds(FailedWork) :
              /\ HasFinalParent(FailedWork, n)
              /\ FinalParent(FailedWork, n) \notin NodeIds(FailedWork)
              /\ FinalParent(FailedWork, n) \in {m.id : m \in DocNodes(w)}

(* C2: fail fast with no partial output.  Whenever the run has ended in    *)
(* failure, no document has been written for any work.                     *)
C2_NoPartialOutput == pc = "failed" => files = <<>>

RECURSIVE TotalRows(_)
TotalRows(ws) == IF ws = <<>> THEN 0 ELSE Len(Head(ws).v) + TotalRows(Tail(ws))

RowsOfWork(w) == SelectSeq(rows, LAMBDA r : r.work_id = w)

(* C3: grouping.  After grouping there is one group per distinct work_id,  *)
(* holding exactly the rows of that work in their original order, so every *)
(* row is in exactly one group; a successful run has written exactly one   *)
(* document per distinct work_id and its node ids are exactly the distinct *)
(* trimmed node_id values of that work's own rows.                         *)
C3_Grouping ==
    /\ pc # "start" =>
         /\ DictKeys(works) = WorkIds
         /\ Len(works) = Cardinality(WorkIds)
         /\ \A g \in 1..Len(works) : works[g].v = RowsOfWork(works[g].k)
         /\ TotalRows(works) = Len(rows)
         /\ \A i \in DOMAIN rows :
              Cardinality({g \in 1..Len(works) :
                  \E j \in 1..Len(works[g].v) : works[g].v[j] = rows[i]}) = 1
    /\ pc = "done" =>
         /\ Len(files) = Cardinality(WorkIds)
         /\ \A w \in WorkIds :
              /\ Emitted(w)
              /\ {n.id : n \in DocNodes(w)} = NodeIds(w)
              /\ Len(Doc(w).nodes) = Cardinality(NodeIds(w))

\* two works whose rows interleave, sharing a node id, one of them written
\* with and without padding
C3_Witness ==
    /\ pc = "done"
    /\ Len(rows) = 3
    /\ rows[1].work_id = W1 /\ rows[2].work_id = W2 /\ rows[3].work_id = W1
    /\ rows[1].node_id = sApad /\ rows[2].node_id = sA /\ rows[3].node_id = sB
    /\ {n.id : n \in DocNodes(W1)} = {sA, sB}
    /\ {n.id : n \in DocNodes(W2)} = {sA}

(* C4: first row wins.  In every document written, each node's level and   *)
(* ordinal are the trimmed level_id and the integer ordinal of the first   *)
(* row of the work that carries the node's id.                             *)
C4_FirstRowWins ==
    \A w \in WorkIds : Emitted(w) =>
      \A n \in DocNodes(w) :
        LET first == SetMin(NodeIdx(w, n.id))
        IN  /\ n.level = strip(rows[first].level_id)
            /\ n.ordinal = IntVal(rows[first].ordinal)

\* a node written with the level and ordinal of its first row although a
\* later row of the node carries another level and another ordinal
C4_Witness ==
    /\ Emitted(W1)
    /\ Len(rows) >= 2
    /\ rows[1].node_id = sA /\ rows[2].node_id = sA
    /\ rows[1].level_id = L1pad /\ rows[2].level_id = L2
    /\ rows[1].ordinal = o10 /\ rows[2].ordinal = oNeg
    /\ \E n \in DocNodes(W1) : n.id = sA /\ n.level = L1 /\ n.ordinal = 10

TitleIdx(w, n) ==
    {i \in NodeIdx(w, n) : strip(rows[i].lang) # <<>> /\ strip(rows[i].title) # <<>>}
LinkIdx(w, n) ==
    {i \in NodeIdx(w, n) : strip(rows[i].site) # <<>> /\ strip(rows[i].url) # <<>>}

(* C5: titles and links.  For each node written, title[lang] exists        *)
(* exactly for the languages of the node's rows whose trimmed lang and     *)
(* title are both non-empty and holds the title of the last such row;      *)
(* links[site] likewise for site and url; title is always present and      *)
(* links is present exactly when the node has such a link row.             *)
C5_TitlesAndLinks ==
    \A w \in WorkIds : Emitted(w) =>
      \A n \in DocNodes(w) :
        LET ti == TitleIdx(w, n.id)
            li == LinkIdx(w, n.id)
            langs == {strip(rows[i].lang) : i \in ti}
            sites == {strip(rows[i].site) : i \in li}
        IN  /\ "title" \in DOMAIN n
            /\ DictKeys(n.title) = langs
            /\ Len(n.title) = Cardinality(langs)
            /\ \A lang \in langs :
                 DictGet(n.title, lang) =
                   strip(rows[SetMax({i \in ti : strip(rows[i].lang) = lang})].title)
            /\ ("links" \in DOMAIN n) <=> (li # {})
            /\ "links" \in DOMAIN n =>
                 /\ DictKeys(n.links) = sites
                 /\ Len(n.links) = Cardinality(sites)
                 /\ \A site \in sites :
                      DictGet(n.links, site) =
                        strip(rows[SetMax({i \in li : strip(rows[i].site) = site})].url)

\* a node whose title for one language and whose link for one site were
\* both overwritten by later rows
C5_Witness ==
    /\ Emitted(W1)
    /\ rows = <<Row(W1, sA, Empty, L1, o1, enpad, tT, wikipad, urlx),
                Row(W1, sA, Empty, L1, o1, en, tU, Empty, Empty),
                Row(W1, sA, Empty, L1, o1, Empty, Empty, wiki, urly)>>
    /\ \E n \in DocNodes(W1) :
         /\ n.title = <<[k |-> en, v |-> tU]>>
         /\ n.links = <<[k |-> wiki, v |-> urly]>>

(* C6: level inference.  The levels list of every document written has    *)
(* exactly one entry per distinct level carried by the document's nodes,   *)
(* each entry's ordinal is the smallest ordinal among the nodes carrying   *)
(* that level, and the list is in non-decreasing order of that ordinal.    *)
C6_Levels ==
    \A w \in WorkIds : Emitted(w) =>
      LET lv == Doc(w).levels
          carried == {n.level : n \in DocNodes(w)}
      IN  /\ {lv[i].id : i \in 1..Len(lv)} = carried
          /\ Len(lv) = Cardinality(carried)
          /\ \A i \in 1..Len(lv) :
               lv[i].ordinal = SetMin({n.ordinal : n \in {m \in DocNodes(w) : m.level = lv[i].id}})
          /\ \A i \in 1..Len(lv) : \A j \in i..Len(lv) : lv[i].ordinal <= lv[j].ordinal

\* two levels; the level seen first has the larger minimum, and the minimum
\* of the other level comes from the later of its two nodes
C6_Witness ==
    /\ Emitted(W1)
    /\ rows = <<Row(W1, sA, Empty, L1pad, o10, Empty, Empty, Empty, Empty),
                Row(W1, sB, Empty, L2, o2, Empty, Empty, Empty, Empty),
                Row(W1, sC, Empty, L2, oNeg, Empty, Empty, Empty, Empty)>>
    /\ Doc(W1).levels = <<[id |-> L2, ordinal |-> 0 - 1], [id |-> L1, ordinal |-> 10]>>

ParentKey(n) == IF "parent" \in DOMAIN n THEN n.parent ELSE <<>>

(* C7: node order.  The nodes list of every document written holds every   *)
(* node of the work exactly once and is ascending in the key (parent id or *)
(* the empty string, ordinal as a number, node id): roots come before      *)
(* every node with a parent, nodes sharing a parent are non-decreasing by  *)
(* ordinal, and nodes sharing parent and ordinal are ordered by id.        *)
C7_NodeOrder ==
    \A w \in WorkIds : Emitted(w) =>
      LET ns == Doc(w).nodes
      IN  /\ {ns[i].id : i \in 1..Len(ns)} = NodeIds(w)
          /\ Len(ns) = Cardinality(NodeIds(w))
          /\ \A i \in 1..Len(ns) : \A j \in (i + 1)..Len(ns) :
               /\ \/ StrLess(ParentKey(ns[i]), ParentKey(ns[j]))
                  \/ /\ ParentKey(ns[i]) = ParentKey(ns[j])
                     /\ ns[i].ordinal < ns[j].ordinal
                  \/ /\ ParentKey(ns[i]) = ParentKey(ns[j])
                     /\ ns[i].ordinal = ns[j].ordinal
                     /\ StrLess(ns[i].id, ns[j].id)
               /\ "parent" \in DOMAIN ns[i] => "parent" \in DOMAIN ns[j]

\* rows arrive as C, B, A; A is the root and comes first, then its children
\* B (ordinal 2) before C (ordinal 10), although "10" < "2" as text
C7_Witness ==
    /\ Emitted(W1)
    /\ rows = <<Row(W1, sC, sA, L1, o10, Empty, Empty, Empty, Empty),
                Row(W1, sB, sA, L1, o2, Empty, Empty, Empty, Empty),
                Row(W1, sA, Empty, L1, o10, Empty, Empty, Empty, Empty)>>
    /\ [i \in 1..Len(Doc(W1).nodes) |-> Doc(W1).nodes[i].id] = <<sA, sB, sC>>

(* C8: parent is last-seen-wins over non-empty values.  Every node written *)
(* carries a parent exactly when some row of the node has a non-empty      *)
(* trimmed parent_id, and the parent is that of the last such row; the run *)
(* fails with a referential error only on a work in which this final       *)
(* parent of some node is no node of the work.                             *)
C8_ParentLastWins ==
    /\ \A w \in WorkIds : Emitted(w) =>
         \A n \in DocNodes(w) :
           /\ ("parent" \in DOMAIN n) <=> HasFinalParent(w, n.id)
           /\ "parent" \in DOMAIN n => n.parent = FinalParent(w, n.id)
    /\ (pc = "failed" /\ err = "parent") => Dangling(FailedWork)

\* a node whose first row has a dangling parent, whose second row has a
\* resolvable one and whose third row has none: written with the second
C8_Witness ==
    /\ Emitted(W1)
    /\ Len(rows) = 3
    /\ \A i \in 1..3 : rows[i].work_id = W1 /\ rows[i].node_id = sA
    /\ rows[1].parent_id = sX /\ rows[2].parent_id = sA /\ rows[3].parent_id = Blank
    /\ \E n \in DocNodes(W1) : n.id = sA /\ n.parent = sA

(* C9: no cycle detection.  A work whose final parents all exist as nodes  *)
(* of the work never fails the run and is written in a successful run,     *)
(* also when its parents form a cycle (a node that is its own parent, or   *)
(* two nodes that are each other's parent); the cycle is in the document.  *)
C9_CyclesAccepted ==
    \A w \in WorkIds : (WellFormed(w) /\ ~Dangling(w) /\ HasCycle(w)) =>
      /\ pc = "failed" => FailedWork # w
      /\ pc = "done" =>
           /\ Emitted(w)
           /\ \A n \in DocNodes(w) :
                HasFinalParent(w, n.id) =>
                  ("parent" \in DOMAIN n /\ n.parent = FinalParent(w, n.id))

\* a document without any root: A's parent is B and B's parent is A
C9_Witness ==
    /\ pc = "done"
    /\ Emitted(W1)
    /\ {n.id : n \in DocNodes(W1)} = {sA, sB}
    /\ \A n \in DocNodes(W1) : "parent" \in DOMAIN n /\ n.parent # n.id

(* C10: the ordinal is parsed on every row.  A work with any row whose     *)
(* ordinal is not an integer literal is never written and the run never    *)
(* succeeds, also when that row repeats a node already seen; a run that    *)
(* has succeeded had a non-empty node_id and an integer ordinal on every   *)
(* row.                                                                    *)
C10_OrdinalEveryRow ==
    /\ \A w \in WorkIds :
         (\E i \in RowIdx(w) : ~IsInt(rows[i].ordinal)) => (~Emitted(w) /\ pc # "done")
    /\ pc = "done" =>
         \A i \in DOMAIN rows : strip(rows[i].node_id) # <<>> /\ IsInt(rows[i].ordinal)
    /\ (pc = "failed" /\ err = "ordinal") =>
         \E i \in RowIdx(FailedWork) : ~IsInt(rows[i].ordinal)

\* the run failed on the ordinal of a row that repeats a node whose first
\* row had an integer ordinal; no other row of the work is at fault
C10_Witness ==
    /\ pc = "failed"
    /\ err = "ordinal"
    /\ Len(rows) = 2
    /\ rows[1].work_id = rows[2].work_id
    /\ rows[1].node_id = sA /\ rows[2].node_id = sApad
    /\ rows[1].ordinal = o1 /\ rows[2].ordinal = oBad

====
